---- MODULE Spec2Model ----
(***************************************************************************)
(* CAN/CANFD BCM example (mab0189/CAN_BCM_Example).                        *)
(*                                                                         *)
(* The repository holds revisions of CANFD_BCM_Example.c:                  *)
(*   revision 1  src/src/CANFD_BCM_Example.c   (634 lines)                 *)
(*   revision 2  src/unnamed/part_003          (937 lines, adds            *)
(*               createTxSetup, createTxSetupUpdate and the isCANFD        *)
(*               parameter of the delete operations)                       *)
(* and src/unnamed/part_002 two earlier versions of it (-1 and 0, with     *)
(* create_TX_SEND and create_TX_SETUP only; specification SpecOld).        *)
(* The variable rev says which revision is built.  One action models one   *)
(* whole call of an operation, every send() of it included.  The kernel's  *)
(* Broadcast Manager is the remote side of the socket: every message that  *)
(* send() delivers is applied to its cyclic tasks at once.                 *)
(***************************************************************************)
EXTENDS Integers, Sequences, FiniteSets, TLC

\* ------------------------------------------------------------------ bounds
MaxFrames == 2      \* longest frame list handed to an operation
MaxCalls  == 2      \* operations called in one run of the process
MaxReceives == 2    \* passes of the receive loop in one run of the process

\* ------------------------------------------------- constants of the program
MAXFRAMES      == 256   \* frame slots of a bcmMsgMultipleFrames* struct
CAN_MAX_DLEN   == 8     \* data bytes of a struct can_frame
CANFD_MAX_DLEN == 64    \* data bytes of a struct canfd_frame
MHSIZ          == 56    \* sizeof(struct bcm_msg_head)
CAN_MTU        == 16    \* sizeof(struct can_frame)
CANFD_MTU      == 72    \* sizeof(struct canfd_frame)

RET_E_OK             == 0
ERR_SIGACTION_FAILED == -1
ERR_IF_NOT_FOUND     == -2
ERR_SOCKET_FAILED    == -3
ERR_SETUP_FAILED     == -5
ERR_TX_SEND_FAILED   == -6
ERR_TX_SETUP_FAILED  == -7
ERR_RX_SETUP_FAILED  == -8
ERR_RECV_FAILED      == -9
ERR_MALLOC_FAILED    == -10

Revisions == {1, 2}

\* ------------------------------------------------------------------ frames
\* A frame is [can_id, len, flags, data]; data has CAN_MAX_DLEN entries in a
\* struct can_frame and CANFD_MAX_DLEN entries in a struct canfd_frame.
Pad(bytes, n) == [i \in 1..n |-> IF i <= Len(bytes) THEN bytes[i] ELSE 0]

canfd_frame(id, len, bytes) ==
    [can_id |-> id, len |-> len, flags |-> 0, data |-> Pad(bytes, CANFD_MAX_DLEN)]

\* *((struct can_frame*) &frames[index]): the first CAN_MTU bytes of the
\* canfd_frame, i.e. can_id, len (can_dlc), the flags byte (__pad) and data[0..7].
can_frame(f) ==
    [can_id |-> f.can_id, len |-> f.len, flags |-> f.flags,
     data |-> SubSeq(f.data, 1, CAN_MAX_DLEN)]

\* A frame slot after memset(msg, 0, msgSize).
ZeroFrame(isCANFD) ==
    [can_id |-> 0, len |-> 0, flags |-> 0,
     data |-> Pad(<<>>, IF isCANFD THEN CANFD_MAX_DLEN ELSE CAN_MAX_DLEN)]

\* The test frames of main().  The bytes main() leaves unassigned are taken
\* as zero.
canFrame1 == canfd_frame(291, 4, <<222, 173, 190, 239>>)            \* 0x123
canFrame2 == canfd_frame(837, 3, <<192, 255, 238>>)                 \* 0x345
canFrame1Modified == canfd_frame(291, 4, <<190, 239, 222, 173>>)
canFrame2Modified == canfd_frame(837, 5, <<192, 255, 238, 255, 238>>)
canfdFrame1 == canfd_frame(1383, 16,                                \* 0x567
    <<222, 173, 190, 239, 222, 173, 190, 239, 222, 173, 190, 239, 222, 173, 190, 239>>)
canfdFrame2 == canfd_frame(1929, 12,                                \* 0x789
    <<192, 255, 238, 192, 255, 238, 192, 255, 238, 192, 255, 238>>)

\* Further argument frames, not in main(): a classic frame with identifier 0,
\* its update, and an FD frame with the identifier of canFrame1.
canFrameId0         == canfd_frame(0, 2, <<17, 34>>)
canFrameId0Modified == canfd_frame(0, 2, <<51, 68>>)
canfdFrameId123     == canfd_frame(291, 9, <<1, 2, 3, 4, 5, 6, 7, 8, 9>>)

\* The frames[] arguments: main()'s arrays, each with one further frame.
framesCAN         == <<canFrame1, canFrameId0, canFrame2>>
framesCANModified == <<canFrame1Modified, canFrameId0Modified, canFrame2Modified>>
framesCANFD       == <<canfdFrame1, canfdFrame2, canfdFrameId123>>

FrameArrays == {framesCAN, framesCANModified, framesCANFD}

\* The (frames, nframes) arguments: an array and a number of frames that
\* stays inside it.  As in main(), setup and send take the original frames
\* and update takes the modified ones.
Min(a, b) == IF a < b THEN a ELSE b

FrameListsOf(arrays) ==
    {SubSeq(arr, 1, n) : arr \in arrays, n \in 0..Min(MaxFrames, 3)}

FrameLists       == FrameListsOf({framesCAN, framesCANFD})
UpdateFrameLists == FrameListsOf({framesCANModified, framesCANFD})

\* ---------------------------------------------------------------- messages
\* Opcodes of linux/can/bcm.h; 0 is the value memset leaves.
TX_SETUP   == 1
TX_DELETE  == 2
TX_SEND    == 4
RX_SETUP   == 5
RX_DELETE  == 6
RX_TIMEOUT == 11
RX_CHANGED == 12

\* struct bcm_timeval
bcm_timeval(sec, usec) == [tv_sec |-> sec, tv_usec |-> usec]

ivalZero == bcm_timeval(0, 0)

\* A message buffer: the fields of struct bcm_msg_head (flags as the set of
\* the flag bits that are set) and the frame slots the operation has written,
\* from slot 0 on; every slot not written holds ZeroFrame.
\* memset(msg, 0, msgSize):
memset0 ==
    [opcode |-> 0, flags |-> {}, count |-> 0, ival1 |-> ivalZero, ival2 |-> ivalZero,
     can_id |-> 0, nframes |-> 0, frames |-> <<>>]

\* sizeof(struct bcmMsgSingleFrameCan), sizeof(struct bcmMsgSingleFrameCanFD)
sizeofSingleFrame(isCANFD) == MHSIZ + (IF isCANFD THEN CANFD_MTU ELSE CAN_MTU)

\* sizeof(struct bcmMsgMultipleFramesCan), sizeof(struct bcmMsgMultipleFramesCanFD)
sizeofMultipleFrames(isCANFD) ==
    MHSIZ + MAXFRAMES * (IF isCANFD THEN CANFD_MTU ELSE CAN_MTU)

\* sizeof(struct bcm_msg_head)
sizeofHead == MHSIZ

\* The frame as it is stored in slot 0 of a single-frame buffer.
slotFrame(f, isCANFD) == IF isCANFD THEN f ELSE can_frame(f)

\* createTxSend: the buffer before the loop, and one pass of the loop.
createTxSendHead(isCANFD) ==
    [memset0 EXCEPT !.opcode = TX_SEND,
                    !.flags = IF isCANFD THEN {"CAN_FD_FRAME"} ELSE {},
                    !.nframes = 1]

createTxSendFill(r, msg, f, isCANFD) ==
    [msg EXCEPT !.can_id = IF r = 2 THEN f.can_id ELSE @,
                !.frames = <<slotFrame(f, isCANFD)>>]

\* Mutant: all the frames batched into one TX_SEND buffer.
createTxSendMsgsBatched(r, frames, isCANFD) ==
    IF frames = <<>> THEN <<>>
    ELSE <<[createTxSendHead(isCANFD) EXCEPT
               !.can_id = IF r = 2 THEN frames[1].can_id ELSE @,
               !.nframes = Len(frames),
               !.frames = [k \in 1..Len(frames) |-> slotFrame(frames[k], isCANFD)]]>>

\* The buffers createTxSend hands to send(), in order.
createTxSendMsgs(r, frames, isCANFD) ==
    LET buf[k \in 0..Len(frames)] ==
            IF k = 0 THEN createTxSendHead(isCANFD)
                     ELSE createTxSendFill(r, buf[k - 1], frames[k], isCANFD)
    IN  [k \in 1..Len(frames) |-> buf[k]]

\* createTxSetup (revision 2): the buffer before the loop, and one pass.
\* Mutant: STARTTIMER left out.
createTxSetupHeadNoStart(isCANFD) ==
    [memset0 EXCEPT !.opcode = TX_SETUP,
                    !.flags = IF isCANFD THEN {"CAN_FD_FRAME", "SETTIMER"}
                                         ELSE {"SETTIMER"},
                    !.nframes = 1]

createTxSetupHead(isCANFD) ==
    [memset0 EXCEPT !.opcode = TX_SETUP,
                    !.flags = IF isCANFD THEN {"CAN_FD_FRAME", "SETTIMER", "STARTTIMER"}
                                         ELSE {"SETTIMER", "STARTTIMER"},
                    !.nframes = 1]

\* Mutant: the two intervals swapped.
createTxSetupFillSwapped(msg, f, count, ival1, ival2, isCANFD) ==
    [msg EXCEPT !.can_id = f.can_id,
                !.count = count,
                !.ival1 = ival2,
                !.ival2 = ival1,
                !.frames = <<slotFrame(f, isCANFD)>>]

createTxSetupFill(msg, f, count, ival1, ival2, isCANFD) ==
    [msg EXCEPT !.can_id = f.can_id,
                !.count = count,
                !.ival1 = ival1,
                !.ival2 = ival2,
                !.frames = <<slotFrame(f, isCANFD)>>]

\* Mutant: nothing is sent unless the three arrays are as long as frames.
createTxSetupMsgsArityChecked(frames, count, ival1, ival2, isCANFD) ==
    IF Len(count) # Len(frames) \/ Len(ival1) # Len(frames) \/ Len(ival2) # Len(frames)
    THEN <<>>
    ELSE LET head == [memset0 EXCEPT !.opcode = TX_SETUP, !.nframes = 1,
                         !.flags = {"SETTIMER", "STARTTIMER"} \cup
                                   (IF isCANFD THEN {"CAN_FD_FRAME"} ELSE {})]
         IN  [k \in 1..Len(frames) |->
                 [head EXCEPT !.can_id = frames[k].can_id,
                              !.count = count[k],
                              !.ival1 = ival1[k],
                              !.ival2 = ival2[k],
                              !.frames = <<IF isCANFD THEN frames[k]
                                                      ELSE can_frame(frames[k])>>]]

createTxSetupMsgs(frames, count, ival1, ival2, isCANFD) ==
    LET buf[k \in 0..Len(frames)] ==
            IF k = 0 THEN createTxSetupHead(isCANFD)
                     ELSE createTxSetupFill(buf[k - 1], frames[k],
                                            count[k], ival1[k], ival2[k], isCANFD)
    IN  [k \in 1..Len(frames) |-> buf[k]]

\* createTxSetupSequence: the one buffer with all the frames.  first is what
\* frames[0].can_id reads: the first frame's identifier, or whatever lies at
\* the pointer when nframes is 0.  Revision 1 leaves msg_head.can_id at 0.
\* FD: memcpy of nframes canfd_frames; classic: one can_frame copy per frame.
\* Mutant: the classic loop copies frames[0] into every slot.
createTxSetupSequenceCopyFirst(frames, isCANFD) ==
    IF isCANFD THEN frames
               ELSE [index \in 1..Len(frames) |-> can_frame(frames[1])]

createTxSetupSequenceCopy(frames, isCANFD) ==
    IF isCANFD THEN frames
               ELSE [index \in 1..Len(frames) |-> can_frame(frames[index])]

createTxSetupSequenceMsg(r, frames, first, count, ival1, ival2, isCANFD) ==
    [memset0 EXCEPT !.opcode = TX_SETUP,
                    !.flags = IF isCANFD THEN {"CAN_FD_FRAME", "SETTIMER", "STARTTIMER"}
                                         ELSE {"SETTIMER", "STARTTIMER"},
                    !.can_id = IF r = 2 THEN first ELSE @,
                    !.count = count,
                    !.ival1 = ival1,
                    !.ival2 = ival2,
                    !.nframes = Len(frames),
                    !.frames = createTxSetupSequenceCopy(frames, isCANFD)]

\* createTxSetupUpdate (revision 2): the buffer before the loop, and one pass.
\* Mutant: the timer flags of createTxSetup left in the copy.
createTxSetupUpdateHeadTimers(isCANFD, announce) ==
    [memset0 EXCEPT !.opcode = TX_SETUP,
                    !.flags = (IF isCANFD THEN {"CAN_FD_FRAME"} ELSE {}) \cup
                              {"SETTIMER", "STARTTIMER"} \cup
                              (IF announce # 0 THEN {"TX_ANNOUNCE"} ELSE {}),
                    !.nframes = 1]

createTxSetupUpdateHead(isCANFD, announce) ==
    [memset0 EXCEPT !.opcode = TX_SETUP,
                    !.flags = (IF isCANFD THEN {"CAN_FD_FRAME"} ELSE {}) \cup
                              (IF announce # 0 THEN {"TX_ANNOUNCE"} ELSE {}),
                    !.nframes = 1]

createTxSetupUpdateFill(msg, f, isCANFD) ==
    [msg EXCEPT !.can_id = f.can_id,
                !.frames = <<slotFrame(f, isCANFD)>>]

createTxSetupUpdateMsgs(frames, isCANFD, announce) ==
    LET buf[k \in 0..Len(frames)] ==
            IF k = 0 THEN createTxSetupUpdateHead(isCANFD, announce)
                     ELSE createTxSetupUpdateFill(buf[k - 1], frames[k], isCANFD)
    IN  [k \in 1..Len(frames) |-> buf[k]]

\* createTxDelete, createRxDelete: revision 1 has no isCANFD parameter and
\* never sets CAN_FD_FRAME.
\* Mutant: msg.can_id = canID forgotten.
createTxDeleteMsgNoId(r, canID, isCANFD) ==
    [memset0 EXCEPT !.opcode = TX_DELETE,
                    !.flags = IF r = 2 /\ isCANFD THEN {"CAN_FD_FRAME"} ELSE @]

createTxDeleteMsg(r, canID, isCANFD) ==
    [memset0 EXCEPT !.opcode = TX_DELETE,
                    !.can_id = canID,
                    !.flags = IF r = 2 /\ isCANFD THEN {"CAN_FD_FRAME"} ELSE @]

\* Mutant: the opcode of createTxDelete left in the copy.
createRxDeleteMsgTxOpcode(r, canID, isCANFD) ==
    [memset0 EXCEPT !.opcode = TX_DELETE,
                    !.can_id = canID,
                    !.flags = IF r = 2 /\ isCANFD THEN {"CAN_FD_FRAME"} ELSE @]

createRxDeleteMsg(r, canID, isCANFD) ==
    [memset0 EXCEPT !.opcode = RX_DELETE,
                    !.can_id = canID,
                    !.flags = IF r = 2 /\ isCANFD THEN {"CAN_FD_FRAME"} ELSE @]

\* Mutant: RX_FILTER_ID left out of the flags.
createRxSetupCanIDMsgNoFilter(canID, isCANFD) ==
    [memset0 EXCEPT !.opcode = RX_SETUP,
                    !.flags = IF isCANFD THEN {"CAN_FD_FRAME"} ELSE {},
                    !.can_id = canID]

createRxSetupCanIDMsg(canID, isCANFD) ==
    [memset0 EXCEPT !.opcode = RX_SETUP,
                    !.flags = {"RX_FILTER_ID"} \cup
                              (IF isCANFD THEN {"CAN_FD_FRAME"} ELSE {}),
                    !.can_id = canID]

createRxSetupMaskMsg(canID, mask, isCANFD) ==
    [memset0 EXCEPT !.opcode = RX_SETUP,
                    !.flags = IF isCANFD THEN {"CAN_FD_FRAME"} ELSE @,
                    !.can_id = canID,
                    !.nframes = 1,
                    !.frames = <<slotFrame(mask, isCANFD)>>]

\* Slot i of a message buffer (slots not written are zero).
msgSlot(m, i) ==
    IF i <= Len(m.frames) THEN m.frames[i] ELSE ZeroFrame("CAN_FD_FRAME" \in m.flags)

\* ------------------------------------------------- the Broadcast Manager
\* The remote side.  A cyclic task is [can_id, fd, frames, count, ival1, ival2]
\* and is addressed by the identifier and the variant flag in the header of
\* the message that created it.
bcm_find_op(t, m) ==
    {op \in t : op.can_id = m.can_id /\ op.fd = ("CAN_FD_FRAME" \in m.flags)}

\* TX_SETUP: create the task, or replace the frames of the existing one; the
\* count and the intervals are taken from the header only with SETTIMER.
bcm_tx_setup(t, m) ==
    LET old    == bcm_find_op(t, m)
        frames == [i \in 1..m.nframes |-> msgSlot(m, i)]
        timed  == "SETTIMER" \in m.flags
        base   == IF old = {}
                  THEN [can_id |-> m.can_id, fd |-> "CAN_FD_FRAME" \in m.flags,
                        frames |-> <<>>, count |-> 0,
                        ival1 |-> ivalZero, ival2 |-> ivalZero]
                  ELSE CHOOSE op \in old : TRUE
        new    == [base EXCEPT !.frames = frames,
                               !.count = IF timed THEN m.count ELSE @,
                               !.ival1 = IF timed THEN m.ival1 ELSE @,
                               !.ival2 = IF timed THEN m.ival2 ELSE @]
    IN  (t \ old) \cup {new}

\* TX_DELETE: remove the addressed task; fails when there is none.
bcm_delete_tx_op(t, m) == t \ bcm_find_op(t, m)

\* What the Broadcast Manager does with one delivered message:
\* ok is FALSE when it rejects the message (send() then returns -1).  A
\* TX_SETUP needs 1 to 256 frames.
bcm_sendmsg(t, m) ==
    IF m.opcode = TX_SETUP
    THEN IF m.nframes < 1 \/ m.nframes > MAXFRAMES
         THEN [ok |-> FALSE, tasks |-> t]
         ELSE [ok |-> TRUE, tasks |-> bcm_tx_setup(t, m)]
    ELSE IF m.opcode = TX_DELETE
         THEN [ok |-> bcm_find_op(t, m) # {}, tasks |-> bcm_delete_tx_op(t, m)]
    ELSE [ok |-> TRUE, tasks |-> t]

\* ------------------------------------------------------------------- state
VARIABLES
    rev,        \* the revision of CANFD_BCM_Example.c that is running
    pc,         \* "start", "ready" (main between two operations), "exited"
    retCode,    \* the argument of exit()
    socketFD,   \* main's socketFD: -1 or the descriptor
    closes,     \* close() calls made on the descriptor
    heap,       \* message buffers malloc'ed and not freed
    call,       \* the last operation called, with its arguments (count, ival1
                \* and ival2 as sequences: the arrays handed to createTxSetup,
                \* the one value for createTxSetupSequence)
    sent,       \* the buffers the last operation handed to send(): [msg, size]
    tasks,      \* the cyclic tasks of the Broadcast Manager
    ncalls,     \* operations called so far
    keepRunning,\* the flag of the receive loop, cleared by the signal handler
    rx          \* the last processReceive: what recv() returned, the buffer,
                \* the handlers it called and the error it printed

vars == <<rev, pc, retCode, socketFD, closes, heap, call, sent, tasks, ncalls,
          keepRunning, rx>>

NoCall ==
    [op |-> "none", frames |-> <<>>, isCANFD |-> FALSE, count |-> <<>>,
     ival1 |-> <<>>, ival2 |-> <<>>, canID |-> 0, announce |-> 0, fault |-> 0]

\* No processReceive yet.  errno is 0 unless recv() set it; msg is the buffer
\* after memset and recv(): the fields of msg_head and canfdFrame[0].
NoDatagram ==
    [size |-> 0, opcode |-> 0, flags |-> {}, can_id |-> 0, nframes |-> 0,
     frame |-> ZeroFrame(TRUE)]

NoRx ==
    [received |-> FALSE, d |-> NoDatagram, nbytes |-> 0, errno |-> 0,
     msg |-> [memset0 EXCEPT !.frames = <<ZeroFrame(TRUE)>>],
     handlers |-> <<>>, error |-> "none"]

Init ==
    /\ rev \in Revisions
    /\ pc = "start"
    /\ retCode = RET_E_OK
    /\ socketFD = -1
    /\ closes = 0
    /\ heap = 0
    /\ call = NoCall
    /\ sent = <<>>
    /\ tasks = {}
    /\ ncalls = 0
    /\ keepRunning = 1
    /\ rx = NoRx

\* main() is between two operations and may call one more.
CanCall == pc = "ready" /\ ncalls < MaxCalls

\* Mutant: the socket is closed but the process goes on.
shutdownHandlerReturns(code, fd, closed) ==
    /\ closes' = IF fd # -1 THEN closed + 1 ELSE closed
    /\ retCode' = code
    /\ pc' = pc

\* shutdownHandler(retCode, socketFD): close the socket unless it is -1, exit.
shutdownHandler(code, fd, closed) ==
    /\ closes' = IF fd # -1 THEN closed + 1 ELSE closed
    /\ retCode' = code
    /\ pc' = "exited"

\* setupSocket(socketFD, addr): the descriptor left in *socketFD, the close()
\* calls it made itself and its return value, for each way the system calls
\* can end.
setupSocket(outcome) ==
    IF outcome = "socket" THEN [fd |-> -1, closes |-> 0, ret |-> ERR_SOCKET_FAILED]
    ELSE IF outcome = "ioctl" THEN [fd |-> 3, closes |-> 0, ret |-> ERR_IF_NOT_FOUND]
    ELSE IF outcome = "connect" THEN [fd |-> 3, closes |-> 1, ret |-> ERR_SETUP_FAILED]
    ELSE [fd |-> 3, closes |-> 0, ret |-> RET_E_OK]

SetupOutcomes == {"sigaction", "socket", "ioctl", "connect", "ok"}

\* main() up to the first operation: sigaction, then setupSocket.
mainSetup(outcome) ==
    /\ pc = "start"
    /\ IF outcome = "sigaction"
       THEN /\ shutdownHandler(ERR_SIGACTION_FAILED, socketFD, closes)
            /\ UNCHANGED socketFD
       ELSE LET s == setupSocket(outcome)
            IN  /\ socketFD' = s.fd
                /\ IF s.ret # 0
                   THEN shutdownHandler(ERR_SETUP_FAILED, s.fd, s.closes)
                   ELSE /\ closes' = s.closes
                        /\ pc' = "ready"
                        /\ UNCHANGED retCode
    /\ UNCHANGED <<rev, heap, call, sent, tasks, ncalls, keepRunning, rx>>

\* main() after the last operation: shutdownHandler(RET_E_OK, &socketFD).
mainReturn ==
    /\ pc = "ready"
    /\ shutdownHandler(RET_E_OK, socketFD, closes)
    /\ UNCHANGED <<rev, socketFD, heap, call, sent, tasks, ncalls, keepRunning, rx>>

\* ------------------------------------------------------------ the send loop
\* send() of the buffers msgs[k], msgs[k+1], ... one after the other until one
\* fails: failAt is the send the transport fails (0: none), and a message the
\* Broadcast Manager rejects fails too.  n is the number of send() calls made.
\* Mutant: the result of send() is looked at only after the loop.
sendFromChecksLate(msgs, k, failAt, t) ==
    [n |-> Len(msgs), failed |-> failAt \in 1..Len(msgs), tasks |-> t]

RECURSIVE sendFrom(_, _, _, _)
sendFrom(msgs, k, failAt, t) ==
    IF k > Len(msgs) THEN [n |-> Len(msgs), failed |-> FALSE, tasks |-> t]
    ELSE IF k = failAt THEN [n |-> k, failed |-> TRUE, tasks |-> t]
    ELSE LET r == bcm_sendmsg(t, msgs[k])
         IN  IF r.ok THEN sendFrom(msgs, k + 1, failAt, r.tasks)
                     ELSE [n |-> k, failed |-> TRUE, tasks |-> t]

\* One operation: malloc (fault = -1: it returns NULL), the sends (fault = k > 0:
\* the transport fails the k-th send; the fault is kept in call.fault), then
\* either shutdownHandler(code) or the normal return, which frees the buffer
\* when freed is TRUE.  allocs is 1 for the operations that malloc.
operation(c, msgs, size, fault, code, allocs, freed) ==
    /\ CanCall
    /\ call' = [c EXCEPT !.fault = fault]
    /\ ncalls' = ncalls + 1
    /\ IF fault = -1
       THEN /\ sent' = <<>>
            /\ shutdownHandler(ERR_MALLOC_FAILED, socketFD, closes)
            /\ UNCHANGED <<heap, tasks>>
       ELSE LET r == sendFrom(msgs, 1, fault, tasks)
            IN  /\ sent' = [k \in 1..r.n |-> [msg |-> msgs[k], size |-> size]]
                /\ tasks' = r.tasks
                /\ IF r.failed
                   THEN /\ shutdownHandler(code, socketFD, closes)
                        /\ heap' = heap + allocs
                   ELSE /\ pc' = "ready"
                        /\ heap' = IF freed THEN heap ELSE heap + allocs
                        /\ UNCHANGED <<retCode, closes>>
    /\ UNCHANGED <<rev, socketFD, keepRunning, rx>>

\* --------------------------------------------------------------- operations
createTxSend(frames, isCANFD, fault) ==
    operation([NoCall EXCEPT !.op = "createTxSend", !.frames = frames,
                             !.isCANFD = isCANFD],
              createTxSendMsgs(rev, frames, isCANFD),
              sizeofSingleFrame(isCANFD), fault, ERR_TX_SEND_FAILED, 1, TRUE)

createTxSetup(frames, count, ival1, ival2, isCANFD, fault) ==
    /\ rev = 2
    /\ operation([NoCall EXCEPT !.op = "createTxSetup", !.frames = frames,
                                !.isCANFD = isCANFD, !.count = count,
                                !.ival1 = ival1, !.ival2 = ival2],
                 createTxSetupMsgs(frames, count, ival1, ival2, isCANFD),
                 sizeofSingleFrame(isCANFD), fault, ERR_TX_SETUP_FAILED, 1, TRUE)

createTxSetupSequence(frames, first, count, ival1, ival2, isCANFD, fault) ==
    operation([NoCall EXCEPT !.op = "createTxSetupSequence", !.frames = frames,
                             !.isCANFD = isCANFD, !.count = <<count>>,
                             !.ival1 = <<ival1>>, !.ival2 = <<ival2>>],
              <<createTxSetupSequenceMsg(rev, frames, first, count, ival1, ival2,
                                         isCANFD)>>,
              sizeofMultipleFrames(isCANFD), fault, ERR_TX_SETUP_FAILED, 1, TRUE)

createTxSetupUpdate(frames, isCANFD, announce, fault) ==
    /\ rev = 2
    /\ operation([NoCall EXCEPT !.op = "createTxSetupUpdate", !.frames = frames,
                                !.isCANFD = isCANFD, !.announce = announce],
                 createTxSetupUpdateMsgs(frames, isCANFD, announce),
                 sizeofSingleFrame(isCANFD), fault, ERR_TX_SETUP_FAILED, 1, TRUE)

\* Revision 1: createTxDelete(socketFD, canID), without isCANFD.
createTxDelete(canID, isCANFD, fault) ==
    /\ rev = 1 => ~isCANFD
    /\ operation([NoCall EXCEPT !.op = "createTxDelete", !.canID = canID,
                                !.isCANFD = isCANFD],
                 <<createTxDeleteMsg(rev, canID, isCANFD)>>,
                 sizeofHead, fault, ERR_RX_SETUP_FAILED, 0, TRUE)

createRxSetupCanID(canID, isCANFD, fault) ==
    operation([NoCall EXCEPT !.op = "createRxSetupCanID", !.canID = canID,
                             !.isCANFD = isCANFD],
              <<createRxSetupCanIDMsg(canID, isCANFD)>>,
              sizeofHead, fault, ERR_RX_SETUP_FAILED, 0, TRUE)

\* createRxSetupMask returns without free(msg).
createRxSetupMask(canID, mask, isCANFD, fault) ==
    operation([NoCall EXCEPT !.op = "createRxSetupMask", !.canID = canID,
                             !.frames = <<mask>>, !.isCANFD = isCANFD],
              <<createRxSetupMaskMsg(canID, mask, isCANFD)>>,
              sizeofSingleFrame(isCANFD), fault, ERR_TX_SETUP_FAILED, 1, FALSE)

\* Revision 1: createRxDelete(socketFD, canID), without isCANFD.
createRxDelete(canID, isCANFD, fault) ==
    /\ rev = 1 => ~isCANFD
    /\ operation([NoCall EXCEPT !.op = "createRxDelete", !.canID = canID,
                                !.isCANFD = isCANFD],
                 <<createRxDeleteMsg(rev, canID, isCANFD)>>,
                 sizeofHead, fault, ERR_RX_SETUP_FAILED, 0, TRUE)

\* ------------------------------------------------------------------ inputs
\* The identifiers of the test frames, and 0x222 that no frame has.
CanIds == {arr[i].can_id : arr \in FrameArrays, i \in 1..3} \cup {546}

\* The identifiers of the RX filter tests of main(): 0x222 and 0x333.
RxIds == {546, 819}

\* The test intervals of main(), and the count[], ival1[] and ival2[]
\* arguments, main()'s values first: createTxSetup is given one entry per
\* frame, or the whole arrays.
ival1 == bcm_timeval(0, 500)
ival2 == bcm_timeval(3, 0)

counts     == <<10, 5, 7>>
countsZero == <<0, 0, 0>>
ivals1     == <<ival1, bcm_timeval(0, 250), bcm_timeval(0, 100)>>
ivals1Zero == <<ivalZero, ivalZero, ivalZero>>
ivals2     == <<ival2, bcm_timeval(1, 0), bcm_timeval(2, 0)>>

\* (count, ival1, ival2) arguments as main() pairs them.
TimingArrays == {<<counts, ivals1, ivals2>>, <<countsZero, ivals1Zero, ivals2>>}

\* The test mask of main(): one relevant byte; can_id, which main() leaves
\* unassigned, is taken as zero.
mask == canfd_frame(0, 1, <<255>>)

\* What frames[0].can_id reads in createTxSetupSequence: the first frame's
\* identifier, or with nframes = 0 whatever lies at the pointer.
FirstIds(frames) == IF Len(frames) > 0 THEN {frames[1].can_id} ELSE {0, 546}

Next ==
    \/ \E outcome \in SetupOutcomes : mainSetup(outcome)
    \/ mainReturn
    \/ /\ CanCall
       /\ \E frames \in FrameLists, isCANFD \in BOOLEAN :
             \E fault \in -1..Len(frames) :
                createTxSend(frames, isCANFD, fault)
    \/ /\ CanCall
       /\ \E frames \in FrameLists, t \in TimingArrays, isCANFD \in BOOLEAN :
             \E fault \in -1..Len(frames), n \in {Len(frames), Len(t[1])} :
                createTxSetup(frames, SubSeq(t[1], 1, n), SubSeq(t[2], 1, n),
                              SubSeq(t[3], 1, n), isCANFD, fault)
    \/ /\ CanCall
       /\ \E frames \in FrameLists, t \in TimingArrays, isCANFD \in BOOLEAN,
             fault \in -1..1 :
             \E first \in FirstIds(frames) :
                createTxSetupSequence(frames, first, t[1][1], t[2][1], t[3][1],
                                      isCANFD, fault)
    \/ /\ CanCall
       /\ \E frames \in UpdateFrameLists, isCANFD \in BOOLEAN, announce \in {0, 1} :
             \E fault \in -1..Len(frames) :
                createTxSetupUpdate(frames, isCANFD, announce, fault)
    \/ /\ CanCall
       /\ \E canID \in CanIds, isCANFD \in BOOLEAN, fault \in 0..1 :
             createTxDelete(canID, isCANFD, fault)
    \/ /\ CanCall
       /\ \E canID \in RxIds, isCANFD \in BOOLEAN, fault \in 0..1 :
             createRxSetupCanID(canID, isCANFD, fault)
    \/ /\ CanCall
       /\ \E canID \in RxIds, isCANFD \in BOOLEAN, fault \in -1..1 :
             createRxSetupMask(canID, mask, isCANFD, fault)
    \/ /\ CanCall
       /\ \E canID \in RxIds, isCANFD \in BOOLEAN, fault \in 0..1 :
             createRxDelete(canID, isCANFD, fault)

Spec == Init /\ [][Next]_vars

\* --------------------------------------------------------------- receiving
\* errno after a failed recv(): nothing to receive, or another failure.
EAGAIN      == 11
EWOULDBLOCK == 11
EINTR       == 4

\* A datagram on the socket: size bytes, of which the first MHSIZ are the
\* header and the rest the beginning of one frame.
datagram(size, opcode, flags, f) ==
    [size |-> size, opcode |-> opcode, flags |-> flags, can_id |-> f.can_id,
     nframes |-> IF size > MHSIZ THEN 1 ELSE 0, frame |-> f]

\* Mutant: never more than the data bytes of a classic frame.
framePrefixClassicOnly(f, k) ==
    IF k < 8 THEN ZeroFrame(TRUE)
    ELSE [f EXCEPT !.data = [j \in 1..CANFD_MAX_DLEN |->
                                IF j <= CAN_MAX_DLEN THEN f.data[j] ELSE 0]]

\* The first k bytes of a frame in a zeroed struct canfd_frame: can_id, len
\* and flags lie in the first 8 bytes, data[j] in byte 8 + j.
framePrefix(f, k) ==
    IF k < 8 THEN ZeroFrame(TRUE)
    ELSE [f EXCEPT !.data = [j \in 1..CANFD_MAX_DLEN |->
                                IF j <= k - 8 THEN f.data[j] ELSE 0]]

\* struct bcmMsgSingleFrameCanFD msg after memset(&msg, 0, sizeof(msg)) and
\* recv(*socketFD, &msg, sizeof(msg), 0) of the datagram d.  (The sizes drawn
\* are 0 or at least MHSIZ: the header is written whole or not at all.)
\* Mutant: only the header is copied into the buffer.
recvIntoHeaderOnly(d) ==
    IF d.size < MHSIZ THEN [memset0 EXCEPT !.frames = <<ZeroFrame(TRUE)>>]
    ELSE [memset0 EXCEPT !.opcode = d.opcode,
                         !.flags = d.flags,
                         !.can_id = d.can_id,
                         !.nframes = d.nframes,
                         !.frames = <<ZeroFrame(TRUE)>>]

recvInto(d) ==
    IF d.size < MHSIZ THEN [memset0 EXCEPT !.frames = <<ZeroFrame(TRUE)>>]
    ELSE [memset0 EXCEPT !.opcode = d.opcode,
                         !.flags = d.flags,
                         !.can_id = d.can_id,
                         !.nframes = d.nframes,
                         !.frames = <<framePrefix(d.frame, d.size - MHSIZ)>>]

\* What recv() returns: -1 with errno set, or the size of the datagram.
recvFails(e) ==
    [d |-> NoDatagram, nbytes |-> -1, errno |-> e,
     msg |-> [memset0 EXCEPT !.frames = <<ZeroFrame(TRUE)>>]]

recv(d) == [d |-> d, nbytes |-> d.size, errno |-> 0, msg |-> recvInto(d)]

\* processTimeout(&msg) and processContentChange(&msg): the call and its
\* argument; the bodies only print.
processTimeout(msg) == [handler |-> "processTimeout", msg |-> msg]

processContentChange(msg) == [handler |-> "processContentChange", msg |-> msg]

\* Mutant: the number of bytes is not checked.
processReceiveWithoutLengthCheck(r) ==
    IF r.nbytes < 0
    THEN IF r.errno # EAGAIN /\ r.errno # EWOULDBLOCK
         THEN [handlers |-> <<>>, error |-> "recv", exit |-> TRUE]
         ELSE [handlers |-> <<>>, error |-> "none", exit |-> FALSE]
    ELSE IF r.msg.opcode # RX_CHANGED /\ r.msg.opcode # RX_TIMEOUT
    THEN [handlers |-> <<>>, error |-> "opcode", exit |-> TRUE]
    ELSE IF r.msg.opcode = RX_TIMEOUT
    THEN [handlers |-> <<processTimeout(r.msg)>>, error |-> "none", exit |-> FALSE]
    ELSE [handlers |-> <<processContentChange(r.msg)>>, error |-> "none", exit |-> FALSE]

\* Mutant: every opcode but RX_TIMEOUT counts as a content change.
processReceiveWithoutOpcodeCheck(r) ==
    IF r.nbytes < 0
    THEN IF r.errno # EAGAIN /\ r.errno # EWOULDBLOCK
         THEN [handlers |-> <<>>, error |-> "recv", exit |-> TRUE]
         ELSE [handlers |-> <<>>, error |-> "none", exit |-> FALSE]
    ELSE IF r.nbytes # sizeofSingleFrame(FALSE) /\ r.nbytes # sizeofSingleFrame(TRUE)
    THEN [handlers |-> <<>>, error |-> "length", exit |-> TRUE]
    ELSE IF r.msg.opcode = RX_TIMEOUT
    THEN [handlers |-> <<processTimeout(r.msg)>>, error |-> "none", exit |-> FALSE]
    ELSE [handlers |-> <<processContentChange(r.msg)>>, error |-> "none", exit |-> FALSE]

\* Mutant: errno is not looked at after a failed recv().
processReceiveWouldBlockFatal(r) ==
    IF r.nbytes < 0
    THEN [handlers |-> <<>>, error |-> "recv", exit |-> TRUE]
    ELSE IF r.nbytes # sizeofSingleFrame(FALSE) /\ r.nbytes # sizeofSingleFrame(TRUE)
    THEN [handlers |-> <<>>, error |-> "length", exit |-> TRUE]
    ELSE IF r.msg.opcode # RX_CHANGED /\ r.msg.opcode # RX_TIMEOUT
    THEN [handlers |-> <<>>, error |-> "opcode", exit |-> TRUE]
    ELSE IF r.msg.opcode = RX_TIMEOUT
    THEN [handlers |-> <<processTimeout(r.msg)>>, error |-> "none", exit |-> FALSE]
    ELSE [handlers |-> <<processContentChange(r.msg)>>, error |-> "none", exit |-> FALSE]

\* Mutant: the two handlers swapped.
processReceiveHandlersSwapped(r) ==
    IF r.nbytes < 0
    THEN IF r.errno # EAGAIN /\ r.errno # EWOULDBLOCK
         THEN [handlers |-> <<>>, error |-> "recv", exit |-> TRUE]
         ELSE [handlers |-> <<>>, error |-> "none", exit |-> FALSE]
    ELSE IF r.nbytes # sizeofSingleFrame(FALSE) /\ r.nbytes # sizeofSingleFrame(TRUE)
    THEN [handlers |-> <<>>, error |-> "length", exit |-> TRUE]
    ELSE IF r.msg.opcode # RX_CHANGED /\ r.msg.opcode # RX_TIMEOUT
    THEN [handlers |-> <<>>, error |-> "opcode", exit |-> TRUE]
    ELSE IF r.msg.opcode = RX_CHANGED
    THEN [handlers |-> <<processTimeout(r.msg)>>, error |-> "none", exit |-> FALSE]
    ELSE [handlers |-> <<processContentChange(r.msg)>>, error |-> "none", exit |-> FALSE]

\* processReceive after recv() returned r: the handlers called, the error
\* printed, and whether shutdownHandler(ERR_RECV_FAILED) was called.
processReceiveResult(r) ==
    IF r.nbytes < 0
    THEN IF r.errno # EAGAIN /\ r.errno # EWOULDBLOCK
         THEN [handlers |-> <<>>, error |-> "recv", exit |-> TRUE]
         ELSE [handlers |-> <<>>, error |-> "none", exit |-> FALSE]
    ELSE IF r.nbytes # sizeofSingleFrame(FALSE) /\ r.nbytes # sizeofSingleFrame(TRUE)
    THEN [handlers |-> <<>>, error |-> "length", exit |-> TRUE]
    ELSE IF r.msg.opcode # RX_CHANGED /\ r.msg.opcode # RX_TIMEOUT
    THEN [handlers |-> <<>>, error |-> "opcode", exit |-> TRUE]
    ELSE IF r.msg.opcode = RX_TIMEOUT
    THEN [handlers |-> <<processTimeout(r.msg)>>, error |-> "none", exit |-> FALSE]
    ELSE [handlers |-> <<processContentChange(r.msg)>>, error |-> "none", exit |-> FALSE]

\* The body of the loop while(keepRunning){ processReceive(&socketFD); }.
processReceive(r) ==
    /\ pc = "ready"
    /\ call.op # "none"
    /\ keepRunning # 0
    /\ ncalls < 1 + MaxReceives
    /\ ncalls' = ncalls + 1
    /\ LET out == processReceiveResult(r)
       IN  /\ rx' = [received |-> TRUE, d |-> r.d, nbytes |-> r.nbytes,
                     errno |-> r.errno, msg |-> r.msg,
                     handlers |-> out.handlers, error |-> out.error]
           /\ IF out.exit
              THEN shutdownHandler(ERR_RECV_FAILED, socketFD, closes)
              ELSE UNCHANGED <<pc, retCode, closes>>
    /\ UNCHANGED <<rev, socketFD, heap, call, sent, tasks, keepRunning>>

\* SIGINT while recv() is in progress: handleTerminationSignal runs and clears
\* the flag, then recv() returns -1 with EINTR or, restarted by the kernel,
\* returns later as any recv() does (main() assigns sa_handler only and leaves
\* sa_flags of sigAction unassigned, so SA_RESTART may be set or not).
processReceiveInterrupted(r) ==
    /\ pc = "ready"
    /\ call.op # "none"
    /\ keepRunning # 0
    /\ ncalls < 1 + MaxReceives
    /\ ncalls' = ncalls + 1
    /\ keepRunning' = 0
    /\ LET out == processReceiveResult(r)
       IN  /\ rx' = [received |-> TRUE, d |-> r.d, nbytes |-> r.nbytes,
                     errno |-> r.errno, msg |-> r.msg,
                     handlers |-> out.handlers, error |-> out.error]
           /\ IF out.exit
              THEN shutdownHandler(ERR_RECV_FAILED, socketFD, closes)
              ELSE UNCHANGED <<pc, retCode, closes>>
    /\ UNCHANGED <<rev, socketFD, heap, call, sent, tasks>>

\* SIGINT: handleTerminationSignal clears the flag.
handleTerminationSignal ==
    /\ pc # "exited"
    /\ keepRunning' = 0
    /\ UNCHANGED <<rev, pc, retCode, socketFD, closes, heap, call, sent, tasks,
                   ncalls, rx>>

\* The loop condition is false: shutdownHandler(RET_E_OK, &socketFD).
mainLoopExit ==
    /\ pc = "ready"
    /\ call.op # "none"
    /\ keepRunning = 0
    /\ shutdownHandler(RET_E_OK, socketFD, closes)
    /\ UNCHANGED <<rev, socketFD, heap, call, sent, tasks, ncalls, keepRunning, rx>>

\* The frames of the datagrams: the classic frame 0x222 [11 22 33 44] and an
\* FD frame with 12 data bytes.
rxFrame   == canfd_frame(546, 4, <<17, 34, 51, 68>>)
rxFrameFD == canfd_frame(546, 12, <<1, 2, 3, 4, 5, 6, 7, 8, 9, 10, 11, 12>>)

\* Sizes of datagrams: nothing, a header alone, the two single-frame
\* messages, and one size in between.
RecvSizes == {0, MHSIZ, sizeofSingleFrame(FALSE), 100, sizeofSingleFrame(TRUE)}

\* Opcodes of datagrams: the two notifications and TX_EXPIRED.
TX_EXPIRED == 9
RecvOpcodes == {RX_CHANGED, RX_TIMEOUT, TX_EXPIRED}

RecvResults ==
    {recvFails(e) : e \in {EAGAIN, EINTR}} \cup
    {recv(datagram(n, op, fl, f)) :
        n \in RecvSizes, op \in RecvOpcodes, fl \in {{}, {"CAN_FD_FRAME"}},
        f \in {rxFrame, rxFrameFD}}

\* main() of revision 1 as it is written: the socket setup, the RX filter
\* createRxSetupMask(&socketFD, 0x444, mask, 0), then the receive loop until
\* the signal handler clears keepRunning.  (processReceive is the same in
\* revision 2, whose main() has the loop commented out.)
InitLoop == Init /\ rev = 1

NextLoop ==
    \/ \E outcome \in SetupOutcomes : mainSetup(outcome)
    \/ /\ call.op = "none"
       /\ \E fault \in -1..1 : createRxSetupMask(1092, mask, FALSE, fault)
    \/ \E r \in RecvResults : processReceive(r)
    \/ \E r \in RecvResults : processReceiveInterrupted(r)
    \/ handleTerminationSignal
    \/ mainLoopExit

SpecLoop == InitLoop /\ [][NextLoop]_vars

\* ------------------------------------------------------- how a call ended
\* The last operation ended in shutdownHandler after a failed send().
sendFailed ==
    /\ pc = "exited"
    /\ retCode \in {ERR_TX_SEND_FAILED, ERR_TX_SETUP_FAILED, ERR_RX_SETUP_FAILED}

mallocFailed == pc = "exited" /\ retCode = ERR_MALLOC_FAILED

\* The last operation returned to main().
Returned == call.op # "none" /\ ~sendFailed /\ ~mallocFailed

\* Frame size and data bytes of a variant.
frameSize(isCANFD) == IF isCANFD THEN CANFD_MTU ELSE CAN_MTU
dataLen(isCANFD)   == IF isCANFD THEN CANFD_MAX_DLEN ELSE CAN_MAX_DLEN

\* The embedded frame e is the input frame f in the layout of the variant:
\* identifier, length and every data byte of the layout.
Embeds(e, f, isCANFD) ==
    /\ e.can_id = f.can_id
    /\ e.len = f.len
    /\ Len(e.data) = dataLen(isCANFD)
    /\ \A j \in 1..dataLen(isCANFD) : e.data[j] = f.data[j]

\* ------------------------------------------------------------------ claims
\* C1: createTxSend with N frames hands N messages to the transport in input
\* order (fewer only when a send fails and the process exits); message k has
\* opcode TX_SEND, frame count 1, the size of a single-frame message and
\* embeds exactly frame k.
C1_SendOnce ==
    call.op = "createTxSend" =>
        /\ Len(sent) <= Len(call.frames)
        /\ Returned => Len(sent) = Len(call.frames)
        /\ \A k \in 1..Len(sent) :
              /\ sent[k].msg.opcode = TX_SEND
              /\ sent[k].msg.nframes = 1
              /\ Len(sent[k].msg.frames) = 1
              /\ sent[k].size = MHSIZ + frameSize(call.isCANFD)
              /\ Embeds(sent[k].msg.frames[1], call.frames[k], call.isCANFD)

C1_Witness ==
    /\ call.op = "createTxSend"
    /\ Returned
    /\ Len(call.frames) = 2
    /\ Len(sent) = 2
    /\ call.frames[1] # call.frames[2]
    /\ call.isCANFD

\* C2: the message of createTxSetupSequence for a non-empty frame list has
\* the identifier of frames[0] in its header.
C2_SequenceHeaderId ==
    (call.op = "createTxSetupSequence" /\ Len(call.frames) >= 1) =>
        \A k \in 1..Len(sent) : sent[k].msg.can_id = call.frames[1].can_id

\* C3: every message handed to the transport is headerSize + n * frameSize
\* bytes long, n being the frame count in its header.
C3_MessageSize ==
    \A k \in 1..Len(sent) :
        sent[k].size = MHSIZ + sent[k].msg.nframes *
                               frameSize("CAN_FD_FRAME" \in sent[k].msg.flags)

\* C4: createTxSetupSequence makes one send for the whole list; the header
\* frame count is the number of input frames and embedded frame i is input
\* frame i, on the classic and on the FD path.
C4_SequenceFrames ==
    (call.op = "createTxSetupSequence" /\ ~mallocFailed) =>
        /\ Len(sent) = 1
        /\ sent[1].msg.nframes = Len(call.frames)
        /\ Len(sent[1].msg.frames) = Len(call.frames)
        /\ \A i \in 1..Len(call.frames) :
              Embeds(sent[1].msg.frames[i], call.frames[i], call.isCANFD)

C4_Witness ==
    /\ call.op = "createTxSetupSequence"
    /\ Returned
    /\ ~call.isCANFD
    /\ Len(call.frames) = 2
    /\ call.frames[1] # call.frames[2]

\* C5: createTxSetup with N frames emits N single-frame TX_SETUP messages in
\* input order; message k is addressed to frames[k].id, carries count[k],
\* ival1[k] and ival2[k], has frame count 1 and embeds frames[k].
C5_SetupIndependent ==
    call.op = "createTxSetup" =>
        /\ Len(sent) <= Len(call.frames)
        /\ Returned => Len(sent) = Len(call.frames)
        /\ \A k \in 1..Len(sent) :
              /\ sent[k].msg.opcode = TX_SETUP
              /\ sent[k].msg.can_id = call.frames[k].can_id
              /\ sent[k].msg.count = call.count[k]
              /\ sent[k].msg.ival1 = call.ival1[k]
              /\ sent[k].msg.ival2 = call.ival2[k]
              /\ sent[k].msg.nframes = 1
              /\ Len(sent[k].msg.frames) = 1
              /\ sent[k].size = MHSIZ + frameSize(call.isCANFD)
              /\ Embeds(sent[k].msg.frames[1], call.frames[k], call.isCANFD)

C5_Witness ==
    /\ call.op = "createTxSetup"
    /\ Returned
    /\ Len(sent) = 2
    /\ call.frames[1].can_id # call.frames[2].can_id
    /\ call.count[1] # call.count[2]
    /\ call.ival1[1] # call.ival1[2]

\* A step that calls createTxDelete right after the operation op returned.
DeleteAfter(op) ==
    /\ call.op = op
    /\ Returned
    /\ pc = "ready"
    /\ ncalls' = ncalls + 1
    /\ call'.op = "createTxDelete"

\* The task t is the one createTxSetup made for frame j of the last call.
IsTaskOfFrame(t, j) ==
    /\ t.can_id = call.frames[j].can_id
    /\ t.fd = call.isCANFD
    /\ t.count = call.count[j]
    /\ t.ival1 = call.ival1[j]
    /\ t.ival2 = call.ival2[j]
    /\ Len(t.frames) = 1
    /\ Embeds(t.frames[1], call.frames[j], call.isCANFD)

\* C6: createTxSetupSequence(frames) has made the only schedule; then
\* createTxDelete(frames[0].id) with the same variant, delivered by the
\* transport, returns normally and no task is left.
C6_DeleteSequenceByFirstId ==
    [][(/\ DeleteAfter("createTxSetupSequence")
        /\ Len(call.frames) >= 1
        /\ Cardinality(tasks) = 1
        /\ call'.canID = call.frames[1].can_id
        /\ call'.isCANFD = call.isCANFD
        /\ call'.fault = 0)
       => (pc' = "ready" /\ tasks' = {})]_vars

\* C7: createTxSetupSequence(frames) has made the only schedule; then a
\* createTxDelete with the identifier of a non-first member, different from
\* frames[0].id, is rejected: the call ends in the error exit and the
\* schedule is unchanged.
C7_DeleteSequenceByOtherId ==
    [][(/\ DeleteAfter("createTxSetupSequence")
        /\ Cardinality(tasks) = 1
        /\ \E i \in 2..Len(call.frames) : call.frames[i].can_id = call'.canID
        /\ call'.canID # call.frames[1].can_id)
       => (/\ pc' = "exited"
           /\ retCode' = ERR_RX_SETUP_FAILED
           /\ tasks' = tasks)]_vars

\* C8: after createTxSetup for frames with pairwise distinct identifiers,
\* createTxDelete(frames[k].id) with the same variant, delivered by the
\* transport, returns normally and removes the task of frame k only: every
\* other task is unchanged, and the task of every other frame is still
\* there with its count and its intervals.
C8_DeleteIndependent ==
    [][(/\ DeleteAfter("createTxSetup")
        /\ \A i, j \in 1..Len(call.frames) :
              i # j => call.frames[i].can_id # call.frames[j].can_id
        /\ \E k \in 1..Len(call.frames) : call.frames[k].can_id = call'.canID
        /\ call'.isCANFD = call.isCANFD
        /\ call'.fault = 0)
       => (/\ pc' = "ready"
           /\ tasks' = {t \in tasks :
                           ~(t.can_id = call'.canID /\ t.fd = call'.isCANFD)}
           /\ Cardinality(tasks') = Cardinality(tasks) - 1
           /\ \A j \in 1..Len(call.frames) :
                 call.frames[j].can_id # call'.canID =>
                     \E t \in tasks' : IsTaskOfFrame(t, j))]_vars

C8_Witness ==
    /\ call.op = "createTxDelete"
    /\ Returned
    /\ call.canID = 291
    /\ Cardinality(tasks) = 1
    /\ \E t \in tasks : t.can_id = 0 /\ t.count = 5 /\ ~t.fd

\* The number of messages of the call, in the primed state, that reached the
\* Broadcast Manager.
deliveredNext == IF pc' = "ready" THEN Len(sent') ELSE Len(sent') - 1

\* C9: every message of createTxSetupUpdate is a single-frame TX_SETUP
\* message addressed to its frame's identifier, without SETTIMER and
\* STARTTIMER, with zero count and intervals, and with TX_ANNOUNCE iff
\* announce is non-zero; the call changes the count and the intervals of no
\* task, and the task addressed by a delivered message holds the new frame.
C9_UpdateKeepsTiming ==
    [][(ncalls' = ncalls + 1 /\ call'.op = "createTxSetupUpdate")
       => (/\ \A k \in 1..Len(sent') :
                 LET m == sent'[k].msg
                 IN  /\ m.opcode = TX_SETUP
                     /\ m.nframes = 1
                     /\ Len(m.frames) = 1
                     /\ sent'[k].size = MHSIZ + frameSize(call'.isCANFD)
                     /\ Embeds(m.frames[1], call'.frames[k], call'.isCANFD)
                     /\ m.can_id = call'.frames[k].can_id
                     /\ "SETTIMER" \notin m.flags
                     /\ "STARTTIMER" \notin m.flags
                     /\ m.count = 0
                     /\ m.ival1 = ivalZero
                     /\ m.ival2 = ivalZero
                     /\ ("TX_ANNOUNCE" \in m.flags) <=> (call'.announce # 0)
                     /\ ("CAN_FD_FRAME" \in m.flags) <=> call'.isCANFD
           /\ \A t \in tasks :
                 \E u \in tasks' :
                    /\ u.can_id = t.can_id
                    /\ u.fd = t.fd
                    /\ u.count = t.count
                    /\ u.ival1 = t.ival1
                    /\ u.ival2 = t.ival2
           /\ \A k \in 1..deliveredNext :
                 \E u \in tasks' :
                    /\ u.can_id = call'.frames[k].can_id
                    /\ u.fd = call'.isCANFD
                    /\ Len(u.frames) = 1
                    /\ Embeds(u.frames[1], call'.frames[k], call'.isCANFD))]_vars

C9_Witness ==
    /\ call.op = "createTxSetupUpdate"
    /\ Returned
    /\ call.announce = 1
    /\ call.frames = <<canFrame1Modified>>
    /\ \E t \in tasks :
          /\ t.can_id = 291
          /\ t.count = 10
          /\ t.ival1 = ival1
          /\ t.frames = <<can_frame(canFrame1Modified)>>

\* C10: createTxDelete and createRxDelete hand one header-only message to the
\* transport: headerSize bytes, frame count 0, opcode TX_DELETE respectively
\* RX_DELETE, the identifier argument in the header, all timing fields zero.
C10_DeleteHeaderOnly ==
    call.op \in {"createTxDelete", "createRxDelete"} =>
        /\ Len(sent) = 1
        /\ sent[1].size = MHSIZ
        /\ sent[1].msg.nframes = 0
        /\ sent[1].msg.frames = <<>>
        /\ sent[1].msg.opcode =
              (IF call.op = "createTxDelete" THEN TX_DELETE ELSE RX_DELETE)
        /\ sent[1].msg.can_id = call.canID
        /\ sent[1].msg.count = 0
        /\ sent[1].msg.ival1 = ivalZero
        /\ sent[1].msg.ival2 = ivalZero

C10_Witness ==
    /\ call.op = "createRxDelete"
    /\ Returned
    /\ call.canID = 546
    /\ sent[1].msg.opcode = RX_DELETE

\* C11: createRxSetupCanID hands one header-only RX_SETUP message with
\* RX_FILTER_ID and frame count 0 to the transport; createRxSetupMask hands
\* one single-frame RX_SETUP message with frame count 1, the mask as its
\* frame and without RX_FILTER_ID; both carry the requested identifier.
C11_RxSetupShapes ==
    /\ call.op = "createRxSetupCanID" =>
           /\ Len(sent) = 1
           /\ sent[1].size = MHSIZ
           /\ sent[1].msg.opcode = RX_SETUP
           /\ "RX_FILTER_ID" \in sent[1].msg.flags
           /\ sent[1].msg.nframes = 0
           /\ sent[1].msg.frames = <<>>
           /\ sent[1].msg.can_id = call.canID
    /\ (call.op = "createRxSetupMask" /\ ~mallocFailed) =>
           /\ Len(sent) = 1
           /\ sent[1].size = MHSIZ + frameSize(call.isCANFD)
           /\ sent[1].msg.opcode = RX_SETUP
           /\ "RX_FILTER_ID" \notin sent[1].msg.flags
           /\ sent[1].msg.nframes = 1
           /\ Len(sent[1].msg.frames) = 1
           /\ Embeds(sent[1].msg.frames[1], call.frames[1], call.isCANFD)
           /\ sent[1].msg.can_id = call.canID

C11_Witness ==
    /\ call.op = "createRxSetupMask"
    /\ Returned
    /\ call.isCANFD
    /\ call.canID = 819
    /\ sent[1].msg.frames[1].data[1] = 255

\* The two lengths processReceive accepts.
legalLength(n) == n = MHSIZ + CAN_MTU \/ n = MHSIZ + CANFD_MTU

\* C12: a receive of any number of bytes (0 and MHSIZ included) that is not
\* one of the two legal lengths ends in the unexpected-length error exit and
\* calls no handler, whatever the opcode in the buffer is.
C12_UnexpectedLength ==
    (rx.received /\ rx.nbytes >= 0 /\ ~legalLength(rx.nbytes)) =>
        /\ rx.error = "length"
        /\ rx.handlers = <<>>
        /\ pc = "exited"
        /\ retCode = ERR_RECV_FAILED

C12_Witness ==
    /\ rx.received
    /\ rx.nbytes = MHSIZ
    /\ rx.msg.opcode = RX_TIMEOUT
    /\ rx.error = "length"

\* C13: a receive of a legal length whose opcode is neither RX_CHANGED nor
\* RX_TIMEOUT ends in the unexpected-opcode error exit and calls no handler.
C13_UnexpectedOpcode ==
    (rx.received /\ legalLength(rx.nbytes)
                 /\ rx.d.opcode \notin {RX_CHANGED, RX_TIMEOUT}) =>
        /\ rx.error = "opcode"
        /\ rx.handlers = <<>>
        /\ pc = "exited"
        /\ retCode = ERR_RECV_FAILED

C13_Witness ==
    /\ rx.received
    /\ rx.nbytes = MHSIZ + CANFD_MTU
    /\ rx.d.opcode = TX_EXPIRED
    /\ rx.error = "opcode"

\* A step that is one pass of the receive loop.
ReceiveStep == ncalls' = ncalls + 1 /\ rx'.received

wouldBlock(r) == r.received /\ r.nbytes < 0 /\ r.errno \in {EAGAIN, EWOULDBLOCK}

\* C14: when recv() fails with EAGAIN or EWOULDBLOCK processReceive returns:
\* no shutdown, no handler, no error; any other failure of recv() is the
\* receive error exit; and after a would-block return main() leaves the loop
\* only once keepRunning is cleared, every other step being a further receive.
C14_WouldBlock ==
    [][/\ (ReceiveStep /\ rx'.nbytes < 0) =>
             IF rx'.errno \in {EAGAIN, EWOULDBLOCK}
             THEN /\ pc' = "ready"
                  /\ closes' = closes
                  /\ retCode' = retCode
                  /\ rx'.handlers = <<>>
                  /\ rx'.error = "none"
             ELSE /\ pc' = "exited"
                  /\ retCode' = ERR_RECV_FAILED
                  /\ rx'.handlers = <<>>
                  /\ rx'.error = "recv"
       /\ (wouldBlock(rx) /\ pc = "ready" /\ keepRunning # 0) =>
             (ReceiveStep \/ (keepRunning' = 0 /\ pc' = "ready"))]_vars

C14_Witness ==
    /\ wouldBlock(rx)
    /\ pc = "ready"
    /\ keepRunning # 0
    /\ ncalls = 3

\* C15 as stated: every receive of a legal length calls exactly one handler,
\* processTimeout iff the opcode is RX_TIMEOUT and processContentChange iff
\* it is RX_CHANGED, with the received buffer as its argument.
C15_OneHandler ==
    (rx.received /\ legalLength(rx.nbytes)) =>
        /\ Len(rx.handlers) = 1
        /\ (rx.handlers[1].handler = "processTimeout") <=> (rx.d.opcode = RX_TIMEOUT)
        /\ (rx.handlers[1].handler = "processContentChange")
              <=> (rx.d.opcode = RX_CHANGED)
        /\ rx.handlers[1].msg = rx.msg

\* C15 amended: every receive of a legal length whose opcode is RX_CHANGED or
\* RX_TIMEOUT calls exactly one handler, processTimeout iff the opcode is
\* RX_TIMEOUT and processContentChange iff it is RX_CHANGED, with the
\* received buffer (opcode, identifier, frame) as its argument.
C15_OneHandlerPerNotification ==
    (rx.received /\ legalLength(rx.nbytes)
                 /\ rx.d.opcode \in {RX_CHANGED, RX_TIMEOUT}) =>
        /\ Len(rx.handlers) = 1
        /\ (rx.handlers[1].handler = "processTimeout") <=> (rx.d.opcode = RX_TIMEOUT)
        /\ (rx.handlers[1].handler = "processContentChange")
              <=> (rx.d.opcode = RX_CHANGED)
        /\ rx.handlers[1].msg = rx.msg
        /\ rx.handlers[1].msg.opcode = rx.d.opcode
        /\ rx.handlers[1].msg.can_id = rx.d.can_id
        /\ rx.error = "none"

C15_Witness ==
    /\ rx.received
    /\ rx.nbytes = MHSIZ + CAN_MTU
    /\ rx.d.opcode = RX_TIMEOUT
    /\ Len(rx.handlers) = 1
    /\ rx.handlers[1].handler = "processTimeout"

SendFailureStep ==
    /\ ncalls' = ncalls + 1
    /\ ~rx'.received
    /\ call'.fault >= 1
    /\ Len(sent') = call'.fault

ReceiveFailureStep == ReceiveStep /\ rx'.error # "none"

PerFrameOps == {"createTxSend", "createTxSetup", "createTxSetupUpdate"}

\* The transport failed the send of message call.fault of the last call.
transportFailed == call.fault >= 1 /\ call.fault <= Len(call.frames)

\* C18 as stated: when a call of createTxSend, createTxSetup or
\* createTxSetupUpdate ends in a failed send, none of its messages has been
\* delivered to the transport.
C18_AllOrNothing ==
    (call.op \in PerFrameOps /\ transportFailed) => Len(sent) - 1 = 0

\* C18 amended: when the transport fails the k-th send of such a call, the
\* messages of frames 1..k-1 have been delivered, in input order, message k
\* is the last one handed over, and the call ends the process; after
\* createTxSetup the tasks of frames 1..k-1 exist.
C18_PartialDelivery ==
    (call.op \in PerFrameOps /\ transportFailed) =>
        /\ pc = "exited"
        /\ retCode = (IF call.op = "createTxSend" THEN ERR_TX_SEND_FAILED
                                                  ELSE ERR_TX_SETUP_FAILED)
        /\ Len(sent) = call.fault
        /\ \A k \in 1..Len(sent) :
              /\ sent[k].msg.nframes = 1
              /\ Embeds(sent[k].msg.frames[1], call.frames[k], call.isCANFD)
        /\ call.op = "createTxSetup" =>
              \A k \in 1..(call.fault - 1) :
                 \E t \in tasks :
                    /\ t.can_id = call.frames[k].can_id
                    /\ t.fd = call.isCANFD
                    /\ Embeds(t.frames[1], call.frames[k], call.isCANFD)

C18_Witness ==
    /\ call.op = "createTxSetup"
    /\ call.fault = 2
    /\ Len(sent) = 2
    /\ pc = "exited"
    /\ tasks # {}

\* The count, ival1 and ival2 arrays of the last createTxSetup call are not
\* all as long as its frame list.
arityMismatch ==
    \/ Len(call.count) # Len(call.frames)
    \/ Len(call.ival1) # Len(call.frames)
    \/ Len(call.ival2) # Len(call.frames)

C20_FrameCountBounded ==
    /\ \A k \in 1..Len(sent) :
          sent[k].msg.opcode = TX_SETUP => sent[k].msg.nframes \in 1..MAXFRAMES
    /\ (call.op = "createTxSetupSequence" /\ Len(call.frames) \notin 1..MAXFRAMES) =>
          /\ pc = "exited"
          /\ sent = <<>>

\* A frame that only the FD variant can carry.
isFDFrame(f) == f.len > CAN_MAX_DLEN \/ f.flags # 0

\* The operations that take frames to send.
EncodeOps ==
    {"createTxSend", "createTxSetup", "createTxSetupSequence", "createTxSetupUpdate"}

\* C21 as stated: no classic message handed to the transport embeds a frame
\* with a declared length above 8, and an operation called for the classic
\* variant with an FD frame among its frames ends in an error having handed
\* over nothing.
C21_VariantChecked ==
    /\ \A k \in 1..Len(sent) :
          "CAN_FD_FRAME" \notin sent[k].msg.flags =>
              \A i \in 1..Len(sent[k].msg.frames) :
                  sent[k].msg.frames[i].len <= CAN_MAX_DLEN
    /\ (/\ call.op \in EncodeOps
        /\ ~call.isCANFD
        /\ \E i \in 1..Len(call.frames) : isFDFrame(call.frames[i])) =>
          /\ pc = "exited"
          /\ sent = <<>>

\* ------------------------------------------------------- frame construction
\* main() builds a frame by assigning can_id, len (can_dlc) and data[j] of a
\* struct can_frame or struct canfd_frame, and hands it to an operation.  The
\* lengths drawn lie around the two maxima; the payload bytes are 1, 2, ...,
\* as many as len says and the data array of the variant holds.
FrameLens ==
    {0, 1, CAN_MAX_DLEN, CAN_MAX_DLEN + 1, CANFD_MAX_DLEN, CANFD_MAX_DLEN + 1}

newFrame(isCANFD, id, len) ==
    canfd_frame(id, len, [j \in 1..Min(len, dataLen(isCANFD)) |-> j])

\* The frame is built and sent once: createTxSend(&socketFD, &frame, 1, isCANFD).
mainSendFrame(isCANFD, id, len, fault) ==
    createTxSend(<<newFrame(isCANFD, id, len)>>, isCANFD, fault)

NextFrame ==
    \/ \E outcome \in SetupOutcomes : mainSetup(outcome)
    \/ mainReturn
    \/ /\ CanCall
       /\ \E isCANFD \in BOOLEAN, len \in FrameLens, fault \in -1..1 :
             mainSendFrame(isCANFD, 291, len, fault)

SpecFrame == Init /\ [][NextFrame]_vars

\* C22 as stated: a frame whose payload length exceeds the maximum of its
\* variant (8 classic, 64 FD) cannot be constructed, so no operation is ever
\* handed one.
C22_LengthValidated ==
    call.op = "createTxSend" =>
        \A i \in 1..Len(call.frames) : call.frames[i].len <= dataLen(call.isCANFD)

\* ----------------------------------------------------- send, then receive
\* The bytes of a single-frame message that was handed to send(), with the
\* opcode replaced by RX_CHANGED, as a datagram on the socket: the header is
\* the same struct bcm_msg_head and the frame lies right after it.
relabel(s) ==
    [size |-> s.size, opcode |-> RX_CHANGED, flags |-> s.msg.flags,
     can_id |-> s.msg.can_id, nframes |-> s.msg.nframes,
     frame |-> [s.msg.frames[1] EXCEPT !.data = Pad(@, CANFD_MAX_DLEN)]]

\* main() with the TX_SEND test and the receive loop: processReceive is
\* handed back one of the messages of the createTxSend call.
NextEcho ==
    \/ \E outcome \in SetupOutcomes : mainSetup(outcome)
    \/ /\ call.op = "none"
       /\ \E frames \in FrameLists, isCANFD \in BOOLEAN :
             \E fault \in -1..Len(frames) :
                createTxSend(frames, isCANFD, fault)
    \/ \E k \in 1..Len(sent) : processReceive(recv(relabel(sent[k])))
    \/ handleTerminationSignal
    \/ mainLoopExit

SpecEcho == Init /\ [][NextEcho]_vars

\* A frame the variant can carry.
validFrame(f, isCANFD) == f.len <= dataLen(isCANFD) /\ f.flags = 0

\* C23: a message of createTxSend for a valid frame of either variant, with
\* its opcode replaced by RX_CHANGED and received by processReceive, reaches
\* processContentChange in a buffer whose frame has the identifier, the
\* length and the payload bytes of the frame that was encoded (and whose
\* header has that identifier too, where createTxSend sets it).
C23_RoundTrip ==
    (call.op = "createTxSend" /\ rx.received) =>
        \A k \in 1..Len(sent) :
            (rx.d = relabel(sent[k]) /\ validFrame(call.frames[k], call.isCANFD)) =>
                /\ Len(rx.handlers) = 1
                /\ rx.handlers[1].handler = "processContentChange"
                /\ LET m == rx.handlers[1].msg
                       f == call.frames[k]
                   IN  /\ m.frames[1].can_id = f.can_id
                       /\ m.frames[1].len = f.len
                       /\ \A j \in 1..f.len : m.frames[1].data[j] = f.data[j]
                       /\ rev = 2 => m.can_id = f.can_id

C23_Witness ==
    /\ call.op = "createTxSend"
    /\ ~call.isCANFD
    /\ call.frames = <<canFrame1, canFrameId0>>
    /\ rx.received
    /\ rx.d = relabel(sent[1])
    /\ Len(rx.handlers) = 1
    /\ rx.handlers[1].msg.frames[1].data[4] = 239

\* The two timer flags of a TX_SETUP header.
TimerFlags == {"SETTIMER", "STARTTIMER"}

\* C24: every message of createTxSetup and of createTxSetupSequence, for
\* either variant, has SETTIMER and STARTTIMER set, and no message of any
\* other operation has either of them.
C24_TimerFlags ==
    \A k \in 1..Len(sent) :
        IF call.op \in {"createTxSetup", "createTxSetupSequence"}
        THEN /\ sent[k].msg.opcode = TX_SETUP
             /\ TimerFlags \subseteq sent[k].msg.flags
        ELSE sent[k].msg.flags \cap TimerFlags = {}

C24_Witness ==
    /\ call.op = "createTxSetup"
    /\ call.isCANFD
    /\ Returned
    /\ Len(sent) = 2
    /\ TimerFlags \subseteq sent[2].msg.flags
    /\ \E t \in tasks : t.can_id = call.frames[2].can_id /\ t.count = call.count[2]

\* ------------------------------------------ the first versions of the file
\* src/unnamed/part_002 holds two earlier versions of CANFD_BCM_Example.c:
\* -1 is the one of lines 1-240, 0 the one of lines 241-481.  Their messages
\* are structs on the stack that are not initialised.
OldRevisions == {-1, 0}

\* What the stack may hold where msg is placed: zeroes, the header of a
\* message an earlier call built there, or other bytes.  Every field the
\* function does not assign keeps that value.
StackHeads(earlier) ==
    {memset0,
     [memset0 EXCEPT !.flags = {"TX_ANNOUNCE"}, !.count = 3, !.can_id = 546]}
    \cup {[earlier[k].msg EXCEPT !.frames = <<>>] : k \in 1..Len(earlier)}

\* create_TX_SEND: version -1 takes canID, version 0 does not assign can_id;
\* flags is assigned only for isCANFD.
create_TX_SENDMsg(r, stack, canID, frame, isCANFD) ==
    [stack EXCEPT !.opcode = TX_SEND,
                  !.can_id = IF r = -1 THEN canID ELSE @,
                  !.nframes = 1,
                  !.flags = IF isCANFD THEN {"CAN_FD_FRAME"} ELSE @,
                  !.frames = <<can_frame(frame)>>]

\* create_TX_SETUP: version -1 takes canID and one frame, version 0 takes
\* frames[] and nframes; flags = flags | SETTIMER | STARTTIMER.
create_TX_SETUPMsg(r, stack, canID, frames, count, i1, i2, isCANFD) ==
    [stack EXCEPT !.opcode = TX_SETUP,
                  !.can_id = IF r = -1 THEN canID ELSE @,
                  !.nframes = Len(frames),
                  !.count = count,
                  !.ival1 = i1,
                  !.ival2 = i2,
                  !.flags = (IF isCANFD THEN {"CAN_FD_FRAME"} ELSE @)
                            \cup {"SETTIMER", "STARTTIMER"},
                  !.frames = [index \in 1..Len(frames) |-> can_frame(frames[index])]]

create_TX_SEND(stack, canID, frame, isCANFD, fault) ==
    operation([NoCall EXCEPT !.op = "create_TX_SEND", !.canID = canID,
                             !.frames = <<frame>>, !.isCANFD = isCANFD],
              <<create_TX_SENDMsg(rev, stack, canID, frame, isCANFD)>>,
              sizeofSingleFrame(FALSE), fault, ERR_TX_SEND_FAILED, 0, TRUE)

create_TX_SETUP(stack, canID, frames, count, i1, i2, isCANFD, fault) ==
    operation([NoCall EXCEPT !.op = "create_TX_SETUP", !.canID = canID,
                             !.frames = frames, !.isCANFD = isCANFD,
                             !.count = <<count>>, !.ival1 = <<i1>>,
                             !.ival2 = <<i2>>],
              <<create_TX_SETUPMsg(rev, stack, canID, frames, count, i1, i2,
                                   isCANFD)>>,
              IF rev = -1 THEN sizeofSingleFrame(FALSE) ELSE sizeofMultipleFrames(FALSE),
              fault, ERR_TX_SEND_FAILED, 0, TRUE)

InitOld ==
    /\ rev \in OldRevisions
    /\ pc = "start"
    /\ retCode = RET_E_OK
    /\ socketFD = -1
    /\ closes = 0
    /\ heap = 0
    /\ call = NoCall
    /\ sent = <<>>
    /\ tasks = {}
    /\ ncalls = 0
    /\ keepRunning = 1
    /\ rx = NoRx

\* main(): setup, the TX_SEND and TX_SETUP tests with the test frames,
\* while(keepRunning){}, shutdownHandler(RET_E_OK, socketFD).
NextOld ==
    \/ \E outcome \in SetupOutcomes : mainSetup(outcome)
    \/ /\ CanCall
       /\ \E stack \in StackHeads(sent), frame \in {canFrame1, canFrame2},
             isCANFD \in BOOLEAN, fault \in 0..1 :
             create_TX_SEND(stack, frame.can_id, frame, isCANFD, fault)
    \/ /\ CanCall
       /\ \E stack \in StackHeads(sent), isCANFD \in BOOLEAN, fault \in 0..1,
             frames \in {<<canFrame1>>} \cup
                        (IF rev = 0 THEN {<<canFrame1, canFrame2>>} ELSE {}) :
             create_TX_SETUP(stack, frames[1].can_id, frames, 10, ival1, ival2,
                             isCANFD, fault)
    \/ handleTerminationSignal
    \/ mainLoopExit

SpecOld == InitOld /\ [][NextOld]_vars

\* The flags an operation may set in the header of a message with opcode op.
flagsOf(op) ==
    IF op = TX_SETUP THEN {"CAN_FD_FRAME", "SETTIMER", "STARTTIMER", "TX_ANNOUNCE"}
    ELSE IF op = RX_SETUP THEN {"CAN_FD_FRAME", "RX_FILTER_ID"}
    ELSE {"CAN_FD_FRAME"}

\* C25 as stated: in every message handed to the transport the header fields
\* the operation does not set are zero: no flag besides those of the
\* operation, and the count and the intervals zero unless the message sets the
\* timer; the frame-variant flag is there only when the FD variant was asked
\* for.
C25_ZeroInitialised ==
    \A k \in 1..Len(sent) :
        LET m == sent[k].msg
        IN  /\ m.flags \subseteq flagsOf(m.opcode)
            /\ "CAN_FD_FRAME" \in m.flags => call.isCANFD
            /\ "SETTIMER" \notin m.flags =>
                  /\ m.count = 0
                  /\ m.ival1 = ivalZero
                  /\ m.ival2 = ivalZero
            /\ m.opcode \in {TX_DELETE, RX_DELETE} =>
                  /\ m.nframes = 0
                  /\ m.frames = <<>>

\* C26 as stated: every message carries CAN_FD_FRAME exactly when the
\* operation was called for the FD variant, and therefore a createTxDelete
\* for the identifier of an FD task (called for the FD variant where it takes
\* one) that the transport delivers returns normally and removes that task.
C26_FdFlag ==
    [][/\ \A k \in 1..Len(sent') :
             ("CAN_FD_FRAME" \in sent'[k].msg.flags) <=> call'.isCANFD
       /\ (/\ pc = "ready"
           /\ ncalls' = ncalls + 1
           /\ call'.op = "createTxDelete"
           /\ call'.fault = 0
           /\ rev = 2 => call'.isCANFD
           /\ \E t \in tasks : t.fd /\ t.can_id = call'.canID)
          => /\ pc' = "ready"
             /\ ~ \E t \in tasks' : t.fd /\ t.can_id = call'.canID]_vars

\* C27 as stated: a datagram of MHSIZ bytes with opcode RX_TIMEOUT, the header
\* alone, reaches processTimeout, and the receive loop goes on: the process
\* does not exit with an error.
C27_HeaderOnlyTimeout ==
    (rx.received /\ rx.nbytes = MHSIZ /\ rx.d.opcode = RX_TIMEOUT) =>
        /\ Len(rx.handlers) = 1
        /\ rx.handlers[1].handler = "processTimeout"
        /\ rx.error = "none"
        /\ pc = "exited" => retCode = RET_E_OK

\* C28 as stated: on every path the socket is closed at most once, and a
\* process that has exited after the socket was opened has closed it exactly
\* once.
C28_ClosedOnce ==
    /\ closes <= 1
    /\ (pc = "exited" /\ socketFD # -1) => closes = 1
    /\ socketFD = -1 => closes = 0

\* C29 as stated: whenever main() is between two operations, every message
\* buffer the completed calls allocated has been freed.
C29_NoLeak == pc = "ready" => heap = 0

\* The receive loop of main() is running.
loopRunning == pc = "ready" /\ call.op # "none"

\* C30 as stated: when the signal arrives while the receive loop is running,
\* also in the middle of a receive, the flag is cleared and the process does
\* not exit with ERR_RECV_FAILED: if the receive attempt under way met no
\* unexpected length or opcode, the exit, in this step or later, is the one
\* with RET_E_OK after one close of the socket.
C30_SignalStopsLoop ==
    [][/\ (loopRunning /\ keepRunning # 0 /\ keepRunning' = 0 /\ pc' = "exited"
              /\ rx'.error \notin {"length", "opcode"})
          => (retCode' = RET_E_OK /\ closes' = closes + 1)
       /\ (loopRunning /\ keepRunning = 0 /\ pc' = "exited")
          => (retCode' = RET_E_OK /\ closes' = closes + 1)]_vars
====
